---- MODULE Spec2Model ----
(***************************************************************************)
(* The Stock forecasting wrapper of the market-forecasting notebook        *)
(* (class Stock: __init__, set_globals, prepare_samples,                   *)
(* prepare_indicators, split_data, split_indicator_data, fit_LSTM,         *)
(* evaluate_forecasts), as a state machine over one instance.              *)
(*                                                                         *)
(* Numbers.  numpy/sklearn compute in double precision.  The model computes *)
(* the same expressions over rationals <<n, d>> (d > 0, lowest terms),     *)
(* either exactly (Spec, SpecLoad, SpecPair: "equal" there means equal     *)
(* before rounding) or with every operation rounded to Precision           *)
(* significand bits (SpecFloat).                                           *)
(*                                                                         *)
(* Arrays.  A 2-d array is a sequence of rows, a row a sequence of         *)
(* rationals; a window (one LSTM sample) is a sequence of rows.  Columns   *)
(* are numbered from 1: the code's column 0 is TargetCol, column 4 is      *)
(* IndicatorCol.                                                           *)
(*                                                                         *)
(* Placeholders.  __init__ stores the function np.array or the class       *)
(* MinMaxScaler in the attributes a later method fills.  The variable      *)
(* "assigned" holds the names of the attributes that hold an instance; an  *)
(* attribute outside it still holds the placeholder, and the value the     *)
(* model keeps for it is not read.                                         *)
(***************************************************************************)
EXTENDS Integers, Sequences, FiniteSets, TLC

(* ---------------------------------------------------------------- bounds *)

\* Longest data frame (rows surviving dropna) the model loads.
MaxLen == 3

\* Largest numSeq (window length) set_globals is called with.
MaxSeq == 2

\* How often set_globals is called on one instance (the drivers call it once).
MaxGlobalsCalls == 1

\* Most rows of a source file that may hold missing values.
MaxFileLen == 2

\* Significand bits of the reduced floating-point format (a double has 53).
Precision == 6

(* ------------------------------------------------------------- rationals *)

Abs(x) == IF x < 0 THEN -x ELSE x

RECURSIVE GCD(_, _)
GCD(a, b) == IF b = 0 THEN a ELSE GCD(b, a % b)

\* The rational n/d in lowest terms with a positive denominator (d # 0).
Rat(n, d) ==
    LET s == IF d < 0 THEN -1 ELSE 1
        g == GCD(Abs(n), Abs(d))
    IN  IF n = 0 THEN <<0, 1>> ELSE <<(s * n) \div g, (s * d) \div g>>

RInt(k) == <<k, 1>>

\* The arithmetic the instance computes in: 0 for exact rationals, p > 0 for
\* floating point with p significand bits, every operation rounded to nearest
\* (ties to even) as numpy rounds doubles.
VARIABLE precision

RECURSIVE Pow2(_)
Pow2(k) == IF k = 0 THEN 1 ELSE 2 * Pow2(k - 1)

\* How often n/d > 0 is halved to come below 2^p, and how often it is doubled
\* to reach 2^(p-1).
RECURSIVE Halvings(_, _, _)
Halvings(n, d, p) == IF n < d * Pow2(p) THEN 0 ELSE 1 + Halvings(n, 2 * d, p)

RECURSIVE Doublings(_, _, _)
Doublings(n, d, p) == IF n >= d * Pow2(p - 1) THEN 0 ELSE 1 + Doublings(2 * n, d, p)

\* n/d >= 0 rounded to the nearest integer, a tie to the even one
NearestEven(n, d) ==
    LET q == n \div d
        twice == 2 * (n % d)
    IN  IF twice > d \/ (twice = d /\ q % 2 = 1) THEN q + 1 ELSE q

\* r rounded to p significand bits
Fl(r, p) ==
    LET a == Abs(r[1])
        sign == IF r[1] < 0 THEN -1 ELSE 1
    IN  IF a = 0 THEN r
        ELSE IF a >= r[2] * Pow2(p)
        THEN LET e == Pow2(Halvings(a, r[2], p))
             IN  <<sign * NearestEven(a, r[2] * e) * e, 1>>
        ELSE LET e == Pow2(Doublings(a, r[2], p))
             IN  Rat(sign * NearestEven(a * e, r[2]), e)

\* the result of one arithmetic operation, as the instance holds it
Rounded(r) == IF precision = 0 THEN r ELSE Fl(r, precision)

\* a and b over their least common denominator: <<numerator of a, numerator
\* of b, denominator>>
Common(a, b) ==
    LET g == GCD(a[2], b[2])
    IN  <<a[1] * (b[2] \div g), b[1] * (a[2] \div g), (a[2] \div g) * b[2]>>

RAdd(a, b) == LET c == Common(a, b) IN Rounded(Rat(c[1] + c[2], c[3]))
RSub(a, b) == LET c == Common(a, b) IN Rounded(Rat(c[1] - c[2], c[3]))
RMul(a, b) == Rounded(Rat(a[1] * b[1], a[2] * b[2]))
RDiv(a, b) == Rounded(Rat(a[1] * b[2], a[2] * b[1]))
RLeq(a, b) == LET c == Common(a, b) IN c[1] <= c[2]

\* Python's int(): truncation toward zero.
PyInt(r) == IF r[1] >= 0 THEN r[1] \div r[2] ELSE -((-r[1]) \div r[2])

RECURSIVE RSum(_)
RSum(s) == IF s = <<>> THEN <<0, 1>> ELSE RAdd(Head(s), RSum(Tail(s)))

RMinOf(S) == CHOOSE x \in S : \A y \in S : RLeq(x, y)
RMaxOf(S) == CHOOSE x \in S : \A y \in S : RLeq(y, x)

\* np.mean of a non-empty vector
Mean(s) == RDiv(RSum(s), RInt(Len(s)))

\* A function over 1..n as an evaluated array (its elements computed once).
Arr(f) == SubSeq(f, 1, Len(f))

\* numpy basic slices a[:k] and a[k:] for any integer k (negative k counts
\* from the end, out-of-range k is clipped).
ClipIndex(k, n) == IF k < 0 THEN (IF k + n < 0 THEN 0 ELSE k + n)
                   ELSE (IF k > n THEN n ELSE k)
SliceTo(a, k) == SubSeq(a, 1, ClipIndex(k, Len(a)))
\* A trailing slice that starts one element late: a[k+1:].
SliceFromNext(a, k) == SubSeq(a, ClipIndex(k, Len(a)) + 2, Len(a))
SliceFrom(a, k) == SubSeq(a, ClipIndex(k, Len(a)) + 1, Len(a))

(* ---------------------------------------------------------- MinMaxScaler *)

\* The class MinMaxScaler / an instance on which fit was never completed.
Unfitted == [fitted |-> FALSE, data_min |-> <<>>, data_max |-> <<>>,
             scale |-> <<>>, min |-> <<>>]

\* scale_ = 1 / (data_max - data_min), a zero range handled as 1.
ScaleOf(lo, hi) ==
    IF hi = lo THEN <<1, 1>> ELSE RDiv(<<1, 1>>, RSub(hi, lo))

\* A fit with one minimum and one maximum for the whole array, not one per
\* column.
FitGlobal(X) ==
    LET cols == 1..Len(X[1])
        every == { X[i][j] : i \in 1..Len(X), j \in cols }
        lo == Arr([j \in cols |-> RMinOf(every)])
        hi == Arr([j \in cols |-> RMaxOf(every)])
        sc == Arr([j \in cols |-> ScaleOf(lo[j], hi[j])])
    IN  [fitted |-> TRUE, data_min |-> lo, data_max |-> hi, scale |-> sc,
         min |-> Arr([j \in cols |-> RSub(<<0, 1>>, RMul(lo[j], sc[j]))])]

\* A fit that leaves the last row out of the extremes (a fit on a leading
\* part of the array).
FitLeading(X) ==
    LET cols == 1..Len(X[1])
        rows == IF Len(X) = 1 THEN {1} ELSE 1..(Len(X) - 1)
        lo == Arr([j \in cols |-> RMinOf({X[i][j] : i \in rows})])
        hi == Arr([j \in cols |-> RMaxOf({X[i][j] : i \in rows})])
        sc == Arr([j \in cols |-> ScaleOf(lo[j], hi[j])])
    IN  [fitted |-> TRUE, data_min |-> lo, data_max |-> hi, scale |-> sc,
         min |-> Arr([j \in cols |-> RSub(<<0, 1>>, RMul(lo[j], sc[j]))])]

\* MinMaxScaler(feature_range=(0,1)).fit(X), X a non-empty array: per column
\* data_min_, data_max_, scale_ and min_ = 0 - data_min_ * scale_.
Fit(X) ==
    LET cols == 1..Len(X[1])
        lo == Arr([j \in cols |-> RMinOf({X[i][j] : i \in 1..Len(X)})])
        hi == Arr([j \in cols |-> RMaxOf({X[i][j] : i \in 1..Len(X)})])
        sc == Arr([j \in cols |-> ScaleOf(lo[j], hi[j])])
    IN  [fitted |-> TRUE, data_min |-> lo, data_max |-> hi, scale |-> sc,
         min |-> Arr([j \in cols |-> RSub(<<0, 1>>, RMul(lo[j], sc[j]))])]

\* A transform that scales and does not shift: X * scale_.
TransformUnshifted(s, X) ==
    Arr([i \in 1..Len(X) |->
        Arr([j \in 1..Len(X[i]) |-> RMul(X[i][j], s.scale[j])])])

\* transform: X * scale_ + min_, column by column
Transform(s, X) ==
    Arr([i \in 1..Len(X) |->
        Arr([j \in 1..Len(X[i]) |-> RAdd(RMul(X[i][j], s.scale[j]), s.min[j])])])

\* inverse_transform: (X - min_) / scale_.  A one-column X against a scaler of
\* k columns broadcasts to k columns, as numpy does.
InverseTransform(s, X) ==
    Arr([i \in 1..Len(X) |->
        Arr([j \in 1..Len(s.scale) |->
            RDiv(RSub(X[i][IF Len(X[i]) = 1 THEN 1 ELSE j], s.min[j]),
                 s.scale[j])])])

(* ------------------------------------------------------------ the inputs *)

\* data.values[:,0] and normalizedData[:,0]: the field the targets are taken from.
TargetCol == 1

\* day[:,4]: the field prepare_indicators averages.
IndicatorCol == 5

\* The rows a source file holds in this model: five numeric fields each
\* (the fewest for which day[:,4] exists).
Rows == { <<0, 1, 0, 0, 0>>, <<1, 2, 1, 1, 1>>, <<2, 2, 1, 2, 0>> }

DataFrames == UNION { [1..n -> Rows] : n \in 1..MaxLen }

\* A data frame as an array of rationals (self.data handed to sklearn/numpy).
AsArray(df) ==
    Arr([i \in 1..Len(df) |-> Arr([j \in 1..Len(df[i]) |-> RInt(df[i][j])])])

\* A row of a source file as read_csv parses it: a cell is <<v>> for a value
\* and <<>> for a missing one (NaN).
Cells(r) == Arr([j \in 1..Len(r) |-> << r[j] >>])

\* The rows of a file that may hold missing values: the rows above, a row
\* with one field missing and a row with every field missing.
FileRows == { Cells(r) : r \in Rows }
            \cup { [Cells(<<1, 2, 1, 1, 1>>) EXCEPT ![2] = <<>>],
                   Arr([j \in 1..5 |-> <<>>]) }

\* What filePath names: a file read_csv parses into rows, or one it cannot read.
Unreadable == [readable |-> FALSE, rows |-> <<>>]
Files == { [readable |-> TRUE, rows |-> rs] :
               rs \in UNION { [1..n -> FileRows] : n \in 0..MaxFileLen } }
         \cup { Unreadable }

IsNa(c) == c = <<>>
Values(row) == Arr([j \in 1..Len(row) |-> row[j][1]])

\* dropna along the other axis: the columns holding a missing value go, every
\* row stays.
DropNaColumns(rows) ==
    IF rows = <<>> THEN <<>>
    ELSE LET idx == SelectSeq(Arr([j \in 1..Len(rows[1]) |-> j]),
                              LAMBDA j : \A i \in 1..Len(rows) : ~IsNa(rows[i][j]))
         IN  Arr([i \in 1..Len(rows) |->
                    Arr([k \in 1..Len(idx) |-> rows[i][idx[k]][1]])])

\* DataFrame.dropna(0): axis 0, how='any' - every row holding at least one
\* missing value goes, the others stay in their order.
RECURSIVE DropNa(_)
DropNa(rows) ==
    IF rows = <<>> THEN <<>>
    ELSE IF \E j \in 1..Len(Head(rows)) : IsNa(Head(rows)[j])
         THEN DropNa(Tail(rows))
         ELSE << Values(Head(rows)) >> \o DropNa(Tail(rows))

\* The test proportions set_globals is called with: inside (0,1), the two
\* ends, and beyond 1.
TestProps == { <<0, 1>>, <<1, 5>>, <<1, 2>>, <<1, 1>>, <<3, 2>> }

BatchSizes == {32}
NeuronCounts == {50}
EpochCounts == {5}

(* -------------------------------------------------------------- the state *)

VARIABLES
    name,               \* self.name of the instance the driver is calling
    data,               \* self.data after read_csv and dropna
    testProp, numSeq, batchSize, numNeurons, numEpochs,
    scaler, normalizedData, normDataHistory, nextDayVals, nextDayValsNorm,
    indicators, indicatorsNorm, indicatorScaler,
    train_samplesX, test_samplesX, train_samplesY, test_samplesY,
    nextDayVals_test, indicators_train, indicators_test,
    model,              \* self.model
    assigned,           \* attributes that no longer hold their placeholder
    lastCall,           \* the latest method call: its name, how it ended,
                        \* and the locals it had computed when it ended
    globalsCalls,       \* number of set_globals calls made so far
    other,              \* the other instance of the notebook, when there is one
    loss_avgmeter,      \* the AverageMeter of the training notebook
    updates             \* the update(val, n) calls made since the last reset

config == <<testProp, numSeq, batchSize, numNeurons, numEpochs>>
samples == <<scaler, normalizedData, normDataHistory, nextDayVals, nextDayValsNorm>>
indics == <<indicators, indicatorsNorm, indicatorScaler>>
coreSplit == <<train_samplesX, test_samplesX, train_samplesY, test_samplesY,
               nextDayVals_test>>
indSplit == <<indicators_train, indicators_test>>

\* what no method writes: which instance self is, and the other instance
others == <<name, other, precision, loss_avgmeter, updates>>

vars == <<name, data, config, samples, indics, coreSplit, indSplit, model, assigned,
          lastCall, globalsCalls, other, precision, loss_avgmeter, updates>>

NoLocals == [reached |-> "none"]

\* AverageMeter(): __init__ calls reset, which sets the four attributes to 0.
NewMeter == [val |-> <<0, 1>>, avg |-> <<0, 1>>, sum |-> <<0, 1>>, count |-> 0]

\* The meter of a notebook that only constructs it.
MeterIdle == loss_avgmeter = NewMeter /\ updates = <<>>

Call(op, err) == [op |-> op, err |-> err, locals |-> NoLocals]

\* keras.Model(): a model with no layers and no inputs.
EmptyModel == [state |-> "empty", seqLen |-> 0, indLen |-> 0]

\* What __init__ leaves in every attribute but self.data: the defaults of the
\* 'global' parameters and the placeholders.
Fresh ==
    /\ testProp = <<1, 5>>
    /\ numSeq = 1
    /\ numEpochs = 1
    /\ numNeurons = 1
    /\ batchSize = 32
    /\ scaler = Unfitted
    /\ normalizedData = <<>>
    /\ normDataHistory = <<>>
    /\ nextDayVals = <<>>
    /\ nextDayValsNorm = <<>>
    /\ indicators = <<>>
    /\ indicatorsNorm = <<>>
    /\ indicatorScaler = Unfitted
    /\ train_samplesX = <<>>
    /\ test_samplesX = <<>>
    /\ train_samplesY = <<>>
    /\ test_samplesY = <<>>
    /\ nextDayVals_test = <<>>
    /\ indicators_train = <<>>
    /\ indicators_test = <<>>
    /\ model = EmptyModel
    /\ assigned = {}
    /\ globalsCalls = 0

\* An instance constructed from a file without missing values (the file itself
\* is not kept).
\* No second instance.
NoOther == [name |-> "none"]

Init ==
    /\ name = "AAPL"
    /\ precision = 0
    /\ MeterIdle
    /\ data \in DataFrames
    /\ lastCall = Call("__init__", "none")
    /\ Fresh
    /\ other = NoOther

\* __init__ up to dropna, with the rows read_csv returned kept as a local.
Read(f) == [op |-> "__init__", err |-> "none",
            locals |-> [reached |-> "dropna", read |-> f.rows]]

\* An instance constructed from any readable file.
InitLoad ==
    \E f \in Files \ {Unreadable} :
        /\ data = DropNa(f.rows)
        /\ name = "AAPL"
        /\ precision = 0
        /\ MeterIdle
        /\ lastCall = Read(f)
        /\ Fresh
        /\ other = NoOther

\* Stock(name, filePath) once more for the same name: __init__ runs again.  On
\* a file read_csv cannot read it raises in its first statement, and the name
\* stays bound to the instance it had.
load ==
    \E f \in Files :
        IF ~f.readable
        THEN /\ lastCall' = Call("__init__", "FileNotFoundError")
             /\ UNCHANGED <<others, data, config, samples, indics, coreSplit, indSplit,
                            model, assigned, globalsCalls>>
        ELSE /\ data' = DropNa(f.rows)
             /\ lastCall' = Read(f)
             \* every other attribute as Fresh has it
             /\ testProp' = <<1, 5>>
             /\ numSeq' = 1
             /\ numEpochs' = 1
             /\ numNeurons' = 1
             /\ batchSize' = 32
             /\ scaler' = Unfitted
             /\ normalizedData' = <<>>
             /\ normDataHistory' = <<>>
             /\ nextDayVals' = <<>>
             /\ nextDayValsNorm' = <<>>
             /\ indicators' = <<>>
             /\ indicatorsNorm' = <<>>
             /\ indicatorScaler' = Unfitted
             /\ train_samplesX' = <<>>
             /\ test_samplesX' = <<>>
             /\ train_samplesY' = <<>>
             /\ test_samplesY' = <<>>
             /\ nextDayVals_test' = <<>>
             /\ indicators_train' = <<>>
             /\ indicators_test' = <<>>
             /\ model' = EmptyModel
             /\ assigned' = {}
             /\ globalsCalls' = 0
             /\ UNCHANGED others

(* ------------------------------------------------------------ set_globals *)

\* set_globals without its last assignment: numEpochs keeps what it held.
set_globals_KeepingEpochs ==
    /\ globalsCalls < MaxGlobalsCalls
    /\ globalsCalls' = globalsCalls + 1
    /\ \E tp \in TestProps, bs \in BatchSizes, ns \in 1..MaxSeq,
       nn \in NeuronCounts :
        /\ testProp' = tp
        /\ batchSize' = bs
        /\ numSeq' = ns
        /\ numNeurons' = nn
        /\ lastCall' = Call("set_globals", "none")
        /\ UNCHANGED <<others, data, numEpochs, samples, indics, coreSplit, indSplit, model,
                       assigned>>

\* set_globals that also forgets what was derived under the former values:
\* the model goes back to the empty keras.Model().
set_globals_ForgettingModel ==
    /\ globalsCalls < MaxGlobalsCalls
    /\ globalsCalls' = globalsCalls + 1
    /\ \E tp \in TestProps, bs \in BatchSizes, ns \in 1..MaxSeq,
       nn \in NeuronCounts, ne \in EpochCounts :
        /\ testProp' = tp
        /\ batchSize' = bs
        /\ numSeq' = ns
        /\ numNeurons' = nn
        /\ numEpochs' = ne
        /\ model' = EmptyModel
        /\ lastCall' = Call("set_globals", "none")
        /\ UNCHANGED <<others, data, samples, indics, coreSplit, indSplit, assigned>>

set_globals ==
    /\ globalsCalls < MaxGlobalsCalls
    /\ globalsCalls' = globalsCalls + 1
    /\ \E tp \in TestProps, bs \in BatchSizes, ns \in 1..MaxSeq,
       nn \in NeuronCounts, ne \in EpochCounts :
        /\ testProp' = tp
        /\ batchSize' = bs
        /\ numSeq' = ns
        /\ numNeurons' = nn
        /\ numEpochs' = ne
        /\ lastCall' = Call("set_globals", "none")
        /\ UNCHANGED <<others, data, samples, indics, coreSplit, indSplit, model, assigned>>

(* -------------------------------------------------------- prepare_samples *)

\* A window count short by one: range(n - w - 1).
SampleRangeShort(n, w) == 1..(n - w - 1)

\* range(n - w): the sample offsets, numbered from 1 here.
SampleRange(n, w) == 1..(n - w)

\* [normalizedData[i : i + numSeq] for i in range(len(normalizedData) - numSeq)]
Windows(nd, w) ==
    Arr([i \in SampleRange(Len(nd), w) |-> SubSeq(nd, i, i + w - 1)])

\* The targets taken over a range short by one.
NextValsShort(a, w) ==
    Arr([i \in SampleRangeShort(Len(a), w) |-> << a[i + w][TargetCol] >>])

\* [a[:,0][i + numSeq] for i in range(len(a) - numSeq)], then expand_dims(.., -1)
NextVals(a, w) ==
    Arr([i \in SampleRange(Len(a), w) |-> << a[i + w][TargetCol] >>])

\* The frame cut down to the rows behind its first window.
WithoutFirstWindow(df, w) == SubSeq(df, w + 1, Len(df))

\* self.data after prepare_samples: fit_transform works on a copy of what it
\* is handed (copy=True), the targets are read through .values[...].copy(),
\* and no statement assigns self.data.
Kept(df, w) == df

\* The samples of an earlier call kept, the new ones added behind them.
KeptAndExtended(held, made) == held \o made

\* self.normDataHistory = np.array([...]): the attribute is bound to the array
\* just made, whatever it held.
Rebound(held, made) == made

prepare_samples ==
    IF data = <<>>
    THEN \* fit_transform on a frame of 0 rows raises ValueError; self.scaler
         \* holds the MinMaxScaler instance just made, not fitted.
         /\ scaler' = Unfitted
         /\ assigned' = assigned \cup {"scaler"}
         /\ lastCall' = Call("prepare_samples", "ValueError")
         /\ UNCHANGED <<others, globalsCalls, data, config, normalizedData, normDataHistory,
                        nextDayVals, nextDayValsNorm, indics, coreSplit, indSplit,
                        model>>
    ELSE
    \E raw \in {AsArray(data)} :
    \E full \in {Fit(raw)} :
    \E nd \in {Transform(full, raw)} :
    \E hist \in {Windows(nd, numSeq)}, nvn \in {NextVals(nd, numSeq)},
       nv \in {NextVals(raw, numSeq)} :
        /\ normalizedData' = nd
        /\ normDataHistory' = Rebound(normDataHistory, hist)
        /\ nextDayValsNorm' = nvn
        /\ nextDayVals' = nv
        /\ assigned' = assigned \cup {"scaler", "normalizedData", "normDataHistory",
                                      "nextDayVals", "nextDayValsNorm"}
        /\ IF nv = <<>>
           THEN \* yNormalizer.fit on an array of 0 samples raises ValueError;
                \* self.scaler keeps the scaler fitted on the whole frame.
                /\ scaler' = full
                /\ lastCall' = Call("prepare_samples", "ValueError")
           ELSE /\ scaler' = Fit(nv)
                /\ lastCall' = IF Len(normDataHistory') = Len(nextDayValsNorm')
                               THEN Call("prepare_samples", "none")
                               ELSE Call("prepare_samples", "AssertionError")
        /\ data' = Kept(data, numSeq)
        /\ UNCHANGED <<others, globalsCalls, config, indics, coreSplit, indSplit, model>>

(* ----------------------------------------------------- prepare_indicators *)

\* np.mean(day[:,4]) for every day (window) of normDataHistory, one per row.
Indicators(hist) ==
    Arr([i \in 1..Len(hist) |->
        << Mean(Arr([t \in 1..Len(hist[i]) |-> hist[i][t][IndicatorCol]])) >>])

\* The scaler just fitted on the indicators, kept in self.scaler.
SharedScaler(held, fitted) == fitted

\* self.scaler after prepare_indicators: the indicators get a MinMaxScaler of
\* their own in self.indicatorScaler, self.scaler is not assigned.
OwnScaler(held, fitted) == held

prepare_indicators ==
    IF "normDataHistory" \notin assigned
    THEN \* iterating over the function np.array raises TypeError
         /\ lastCall' = Call("prepare_indicators", "TypeError")
         /\ UNCHANGED <<others, globalsCalls, data, config, samples, indics, coreSplit, indSplit, model,
                        assigned>>
    ELSE \E ind \in {Indicators(normDataHistory)} :
             /\ indicators' = ind
             /\ IF ind = <<>>
                THEN \* fit_transform of an empty array raises ValueError on
                     \* the fresh MinMaxScaler()
                     /\ indicatorScaler' = Unfitted
                     /\ indicatorsNorm' = indicatorsNorm
                     /\ UNCHANGED scaler
                     /\ assigned' = assigned \cup {"indicators", "indicatorScaler"}
                     /\ lastCall' = Call("prepare_indicators", "ValueError")
                ELSE /\ indicatorScaler' = Fit(ind)
                     /\ indicatorsNorm' = Transform(indicatorScaler', ind)
                     /\ scaler' = OwnScaler(scaler, indicatorScaler')
                     /\ assigned' = assigned \cup {"indicators", "indicatorScaler",
                                                   "indicatorsNorm"}
                     /\ lastCall' = Call("prepare_indicators", "none")
             /\ UNCHANGED <<others, globalsCalls, data, config, normalizedData,
                            normDataHistory, nextDayVals, nextDayValsNorm, coreSplit,
                            indSplit, model>>

(* ------------------------------------------------------------- split_data *)

\* The split point taken as int(shape[0] * (1 - testProp)).
SplitPointOfComplement(m, tp) == PyInt(RMul(RInt(m), RSub(<<1, 1>>, tp)))

\* shape[0] - int(shape[0] * testProp)
SplitPoint(m, tp) == m - PyInt(RMul(RInt(m), tp))

split_data ==
    IF "normDataHistory" \notin assigned
    THEN \* np.array (a function) has no attribute shape
         /\ lastCall' = Call("split_data", "AttributeError")
         /\ UNCHANGED <<others, globalsCalls, data, config, samples, indics, coreSplit, indSplit, model,
                        assigned>>
    ELSE \E split \in {SplitPoint(Len(normDataHistory), testProp)} :
             /\ train_samplesX' = SliceTo(normDataHistory, split)
             /\ test_samplesX' = SliceFrom(normDataHistory, split)
             /\ train_samplesY' = SliceTo(nextDayValsNorm, split)
             /\ test_samplesY' = SliceFrom(nextDayValsNorm, split)
             /\ nextDayVals_test' = SliceFrom(nextDayVals, split)
             /\ assigned' = assigned \cup {"train_samplesX", "test_samplesX",
                                           "train_samplesY", "test_samplesY",
                                           "nextDayVals_test"}
             /\ lastCall' = Call("split_data", "none")
             /\ UNCHANGED <<others, globalsCalls, data, config, samples, indics, indSplit, model>>

(* --------------------------------------------------- split_indicator_data *)

split_indicator_data ==
    IF "indicatorsNorm" \notin assigned
    THEN /\ lastCall' = Call("split_indicator_data", "AttributeError")
         /\ UNCHANGED <<others, globalsCalls, data, config, samples, indics, coreSplit, indSplit, model,
                        assigned>>
    ELSE \E split \in {SplitPoint(Len(indicatorsNorm), testProp)} :
             /\ indicators_train' = SliceTo(indicatorsNorm, split)
             /\ indicators_test' = SliceFrom(indicatorsNorm, split)
             /\ assigned' = assigned \cup {"indicators_train", "indicators_test"}
             /\ lastCall' = Call("split_indicator_data", "none")
             /\ UNCHANGED <<others, globalsCalls, data, config, samples, indics, coreSplit, model>>

(* --------------------------------------------------------------- fit_LSTM *)

\* What the engine (Keras) accepts as the two input branches of a model built
\* for windows of seqLen steps: both arrays present, of one non-zero length,
\* every window seqLen steps long.
EngineAccepts(m, X, I, names) ==
    /\ names \subseteq assigned
    /\ Len(X) > 0
    /\ Len(X) = Len(I)
    /\ \A i \in 1..Len(X) : Len(X[i]) = m.seqLen

\* keras.Model(inputs=[lstm_branch.input, ind_branch.input], outputs=z), compiled
BuiltModel == [state |-> "compiled", seqLen |-> numSeq, indLen |-> Len(indicators[1])]

\* What self.model.fit raises, caught and raised anew as a TrainingError.
Wrapped(cause) == "TrainingError"

\* fit_LSTM has no try/except: what self.model.fit raises leaves fit_LSTM as
\* it is.
Propagated(cause) == cause

\* What self.model.fit raises on arrays it cannot take, and for a reason of
\* its own.
EngineErrors == {"ValueError", "EngineError"}

\* fit_LSTM ended in or after self.model.fit, which it calls once.
FitCall(err) == [op |-> "fit_LSTM", err |-> err,
                 locals |-> [reached |-> "fit", fitCalls |-> 1]]

\* An array the engine has shuffled in place (here: turned end to end).
ShuffledInPlace(X) == Arr([i \in 1..Len(X) |-> X[Len(X) + 1 - i]])

\* An array handed to self.model.fit, after the call: shuffle=True has Keras
\* draw the batches in a shuffled order of indices; the array is as it was.
Fed(X) == X

fit_LSTM ==
    /\ UNCHANGED <<others, globalsCalls, data, config, samples, indics, test_samplesX,
                   train_samplesY, test_samplesY, nextDayVals_test, indSplit, assigned>>
    /\ IF "indicators" \notin assigned
       THEN \* self.indicators.shape on the function np.array
            /\ lastCall' = Call("fit_LSTM", "AttributeError")
            /\ UNCHANGED <<model, train_samplesX>>
       ELSE IF indicators = <<>>
       THEN \* shape is (0,): shape[1] raises IndexError
            /\ lastCall' = Call("fit_LSTM", "IndexError")
            /\ UNCHANGED <<model, train_samplesX>>
       ELSE IF ~EngineAccepts(BuiltModel, train_samplesX, indicators_train,
                               {"train_samplesX", "train_samplesY", "indicators_train"})
       THEN \* self.model is assigned and compiled before self.model.fit raises
            /\ model' = BuiltModel
            /\ lastCall' = FitCall(Propagated("ValueError"))
            /\ UNCHANGED train_samplesX
       ELSE \* the engine fits, or fails for a reason of its own
            /\ train_samplesX' = Fed(train_samplesX)
            /\ \/ /\ model' = [BuiltModel EXCEPT !.state = "fitted"]
                  /\ lastCall' = FitCall("none")
               \/ /\ model' = BuiltModel
                  /\ lastCall' = FitCall(Propagated("EngineError"))

(* ----------------------------------------------------- evaluate_forecasts *)

\* The engine is opaque: these are the prediction rules the model tries.
\*   last   - the target field of the window's last step
\*   target - the normalized target itself (a perfect forecast)
\*   zero   - the constant 0
PredictKinds == {"last", "target", "zero"}

Predict(kind, X, Y) ==
    Arr([i \in 1..Len(X) |->
        << CASE kind = "last" -> X[i][Len(X[i])][TargetCol]
             [] kind = "target" -> Y[i][1]
             [] OTHER -> <<0, 1>> >>])

\* all entries of a 2-d array, row after row
RECURSIVE Flatten(_)
Flatten(A) == IF A = <<>> THEN <<>> ELSE Head(A) \o Flatten(Tail(A))

\* np.mean(np.square(actual - predicted)), actual of one column broadcast
\* against the columns of predicted
MeanSquare(actual, predicted) ==
    Mean(Flatten(Arr([i \in 1..Len(predicted) |->
                    Arr([j \in 1..Len(predicted[i]) |->
                        LET d == RSub(actual[i][1], predicted[i][j])
                        IN  RMul(d, d)])])))

\* float division results outside the rationals
Inf == <<1, 0>>
NaN == <<0, 0>>

\* MSE / (np.max(actual) - np.min(actual)) * 100
Scaled(mse, actual) ==
    LET vals == {actual[i][1] : i \in 1..Len(actual)}
        rng == RSub(RMaxOf(vals), RMinOf(vals))
    IN  IF rng = <<0, 1>>
        THEN (IF mse = <<0, 1>> THEN NaN ELSE Inf)
        ELSE RMul(RDiv(mse, rng), RInt(100))

evaluate_forecasts ==
    /\ UNCHANGED <<others, globalsCalls, data, config, samples, indics, coreSplit, indSplit, model, assigned>>
    /\ IF model.state = "empty"
       THEN \* predict on keras.Model(), which has no inputs and no call()
            lastCall' = Call("evaluate_forecasts", "NotImplementedError")
       ELSE IF ~EngineAccepts(model, test_samplesX, indicators_test,
                               {"test_samplesX", "test_samplesY", "indicators_test",
                                "nextDayVals_test", "scaler"})
       THEN lastCall' = Call("evaluate_forecasts", "ValueError")
       ELSE \E kind \in PredictKinds :
            \E predicted \in {Predict(kind, test_samplesX, test_samplesY)} :
            \E predictedPrices \in {InverseTransform(scaler, predicted)} :
            \E MSE \in {MeanSquare(nextDayVals_test, predictedPrices)} :
            \E MSE_scaled \in {Scaled(MSE, nextDayVals_test)} :
                \* print("MSE Score: " + MSE_scaled): str + float raises
                \* TypeError, so nothing is printed, plotted or returned
                lastCall' = [op |-> "evaluate_forecasts", err |-> "TypeError",
                             locals |-> [reached |-> "print",
                                         predicted |-> predicted,
                                         predictedPrices |-> predictedPrices,
                                         MSE |-> MSE,
                                         MSE_scaled |-> MSE_scaled]]

(* ------------------------------------------------------------------------ *)

Next ==
    \/ set_globals
    \/ prepare_samples
    \/ prepare_indicators
    \/ split_data
    \/ split_indicator_data
    \/ fit_LSTM
    \/ evaluate_forecasts

Spec == Init /\ [][Next]_vars

(* ---------------------------------------------------------- two instances *)

\* The attributes of the instance the driver is calling.
Self == [name |-> name, data |-> data, config |-> config, samples |-> samples,
         indics |-> indics, coreSplit |-> coreSplit, indSplit |-> indSplit,
         model |-> model, assigned |-> assigned, lastCall |-> lastCall,
         globalsCalls |-> globalsCalls]

\* The files of the two instances.
PairFrames == { << <<0, 1, 0, 0, 0>>, <<1, 2, 1, 1, 1>>, <<2, 2, 1, 2, 0>> >>,
                << <<1, 2, 1, 1, 1>>, <<2, 2, 1, 2, 0>> >> }

\* AAPL = Stock("AAPL", ..); GDX = Stock("GDX", ..): two instances constructed,
\* the driver about to call AAPL.
InitPair ==
    /\ name = "AAPL"
    /\ precision = 0
    /\ MeterIdle
    /\ data \in PairFrames
    /\ lastCall = Call("__init__", "none")
    /\ Fresh
    /\ \E df \in PairFrames :
          other = [name |-> "GDX", data |-> df,
                   config |-> << <<1, 5>>, 1, 32, 1, 1 >>,
                   samples |-> << Unfitted, <<>>, <<>>, <<>>, <<>> >>,
                   indics |-> << <<>>, <<>>, Unfitted >>,
                   coreSplit |-> << <<>>, <<>>, <<>>, <<>>, <<>> >>,
                   indSplit |-> << <<>>, <<>> >>,
                   model |-> EmptyModel, assigned |-> {},
                   lastCall |-> Call("__init__", "none"), globalsCalls |-> 0]

\* The driver turning to an instance whose scaler attribute is one with the
\* scaler of the instance it leaves (an attribute of the class).
switch_SharingScaler ==
    /\ other # NoOther
    /\ UNCHANGED <<precision, loss_avgmeter, updates>>
    /\ other' = Self
    /\ name' = other.name
    /\ data' = other.data
    /\ testProp' = other.config[1]
    /\ numSeq' = other.config[2]
    /\ batchSize' = other.config[3]
    /\ numNeurons' = other.config[4]
    /\ numEpochs' = other.config[5]
    /\ scaler' = scaler
    /\ normalizedData' = other.samples[2]
    /\ normDataHistory' = other.samples[3]
    /\ nextDayVals' = other.samples[4]
    /\ nextDayValsNorm' = other.samples[5]
    /\ indicators' = other.indics[1]
    /\ indicatorsNorm' = other.indics[2]
    /\ indicatorScaler' = other.indics[3]
    /\ train_samplesX' = other.coreSplit[1]
    /\ test_samplesX' = other.coreSplit[2]
    /\ train_samplesY' = other.coreSplit[3]
    /\ test_samplesY' = other.coreSplit[4]
    /\ nextDayVals_test' = other.coreSplit[5]
    /\ indicators_train' = other.indSplit[1]
    /\ indicators_test' = other.indSplit[2]
    /\ model' = other.model
    /\ assigned' = other.assigned
    /\ lastCall' = other.lastCall
    /\ globalsCalls' = other.globalsCalls

\* The driver turning from one instance to the other (the next statement run
\* is GDX.method() after AAPL.method(), or the reverse): every attribute read
\* through self is now the other instance's, each instance keeping its own.
switch ==
    /\ other # NoOther
    /\ UNCHANGED <<precision, loss_avgmeter, updates>>
    /\ other' = Self
    /\ name' = other.name
    /\ data' = other.data
    /\ testProp' = other.config[1]
    /\ numSeq' = other.config[2]
    /\ batchSize' = other.config[3]
    /\ numNeurons' = other.config[4]
    /\ numEpochs' = other.config[5]
    /\ scaler' = other.samples[1]
    /\ normalizedData' = other.samples[2]
    /\ normDataHistory' = other.samples[3]
    /\ nextDayVals' = other.samples[4]
    /\ nextDayValsNorm' = other.samples[5]
    /\ indicators' = other.indics[1]
    /\ indicatorsNorm' = other.indics[2]
    /\ indicatorScaler' = other.indics[3]
    /\ train_samplesX' = other.coreSplit[1]
    /\ test_samplesX' = other.coreSplit[2]
    /\ train_samplesY' = other.coreSplit[3]
    /\ test_samplesY' = other.coreSplit[4]
    /\ nextDayVals_test' = other.coreSplit[5]
    /\ indicators_train' = other.indSplit[1]
    /\ indicators_test' = other.indSplit[2]
    /\ model' = other.model
    /\ assigned' = other.assigned
    /\ lastCall' = other.lastCall
    /\ globalsCalls' = other.globalsCalls

\* The methods of the drivers' pipeline on two instances with the
\* constructor's configuration, the driver free to turn from one to the other
\* between any two calls.
NextPair ==
    \/ switch
    \/ prepare_samples
    \/ prepare_indicators
    \/ split_data
    \/ split_indicator_data
    \/ fit_LSTM
    \/ evaluate_forecasts

SpecPair == InitPair /\ [][NextPair]_vars

(* --------------------------------------------------------- floating point *)

\* The rows of the frames normalized in floating point.
FloatRows == { <<1, 2, 0, 0, 1>>, <<4, 9, 0, 1, 7>>, <<7, 2, 0, 1, 4>>,
               <<7, 5, 0, 2, 5>>, <<5, 12, 0, 2, 12>> }

\* An instance constructed from such a frame, computing in floating point.
InitFloat ==
    /\ name = "AAPL"
    /\ precision = Precision
    /\ MeterIdle
    /\ data \in UNION { [1..n -> FloatRows] : n \in 1..MaxLen }
    /\ lastCall = Call("__init__", "none")
    /\ Fresh
    /\ other = NoOther

\* The two normalizing steps, on the constructor's configuration.
NextFloat ==
    \/ prepare_samples
    \/ prepare_indicators

SpecFloat == InitFloat /\ [][NextFloat]_vars

\* Instances constructed from files that may hold missing values, and
\* constructed anew at any time.
NextLoad == load \/ Next

SpecLoad == InitLoad /\ [][NextLoad]_vars



(* ------------------------------------------------------------ AverageMeter *)

MaxUpdates == 3

\* What loss.item() returns: a loss, as the arithmetic in use holds it.
Losses == {Rounded(<<0, 1>>), Rounded(<<1, 3>>), Rounded(<<5, 2>>), Rounded(<<7, 1>>)}

\* What update is given as n: the batch size, a positive number of items.
ItemCounts == 1..3

\* the attributes of a Stock instance, which the meter has nothing to do with
stock == <<name, data, config, samples, indics, coreSplit, indSplit, model, assigned,
           lastCall, globalsCalls, other, precision>>

\* self.sum += val: the value counted once, whatever n is.
Unweighted(val, n) == val

\* val * n
Weighted(val, n) == RMul(val, <<n, 1>>)

\* reset: val = avg = sum = count = 0
reset ==
    /\ loss_avgmeter' = NewMeter
    /\ updates' = <<>>
    /\ UNCHANGED stock

\* update(val, n): val = val; sum += val * n; count += n; avg = sum / count
update ==
    /\ Len(updates) < MaxUpdates
    /\ \E val \in Losses, n \in ItemCounts :
       \E sum \in {RAdd(loss_avgmeter.sum, Weighted(val, n))} :
       \E count \in {loss_avgmeter.count + n} :
        /\ loss_avgmeter' = [val |-> val, sum |-> sum, count |-> count,
                             avg |-> RDiv(sum, <<count, 1>>)]
        /\ updates' = Append(updates, <<val, n>>)
    /\ UNCHANGED stock

\* loss_avgmeter = AverageMeter(), in exact arithmetic or in arithmetic of
\* Precision bits, next to a Stock instance nothing is called on.
InitMeter ==
    /\ name = "AAPL"
    /\ precision \in {0, Precision}
    /\ MeterIdle
    /\ data = <<>>
    /\ lastCall = Call("__init__", "none")
    /\ Fresh
    /\ other = NoOther

\* The calls the training loop makes on the meter, in any order.
NextMeter ==
    \/ reset
    \/ update

SpecMeter == InitMeter /\ [][NextMeter]_vars


(* ============================== the claims ============================== *)

N == Len(data)
Ok(op) == lastCall.op = op /\ lastCall.err = "none"
Called(op) == lastCall.op = op

\* floor of a rational
RFloor(r) == r[1] \div r[2]

RLess(a, b) == a[1] * b[2] < b[1] * a[2]
InsideUnit(tp) == RLess(<<0, 1>>, tp) /\ RLess(tp, <<1, 1>>)

\* The lifecycle state of the specification, read off the instance: how far the
\* attributes have been filled.
Phase ==
    IF "normDataHistory" \notin assigned THEN "Loaded"
    ELSE IF "indicatorsNorm" \notin assigned THEN "SamplesPrepared"
    ELSE IF ~({"train_samplesX", "indicators_train"} \subseteq assigned)
         THEN "IndicatorsPrepared"
    ELSE IF model.state # "fitted" THEN "Split"
    ELSE IF Ok("evaluate_forecasts") THEN "Evaluated"
    ELSE "Trained"

\* An out-of-order call is refused: SequenceError, lifecycle where it was.
Refused == lastCall'.err = "SequenceError" /\ Phase' = Phase

\* C1 (as claimed): every operation requires exactly the prior lifecycle
\* state; invoked in any other state it fails with SequenceError and does not
\* advance the lifecycle.
C1_OutOfOrderIsSequenceError ==
    [][ /\ (prepare_samples /\ Phase # "Loaded") => Refused
        /\ (prepare_indicators /\ Phase # "SamplesPrepared") => Refused
        /\ (split_data /\ Phase # "IndicatorsPrepared") => Refused
        /\ (split_indicator_data /\ Phase # "IndicatorsPrepared") => Refused
        /\ (fit_LSTM /\ Phase # "Split") => Refused
        /\ (evaluate_forecasts /\ Phase # "Trained") => Refused ]_vars

\* C2 (as claimed): evaluate() without a successfully completed train() fails
\* with NotTrainedError and produces no forecast.
C2_EvaluateUntrainedIsNotTrainedError ==
    (Called("evaluate_forecasts") /\ model.state # "fitted")
        => (lastCall.err = "NotTrainedError" /\ lastCall.locals = NoLocals)

\* C3: for 0 < W < N, prepare_samples() leaves exactly N - W samples; sample i
\* (from 0) is the slice [i, i+W) of the normalized series, its normalized
\* target is field 0 of the normalized series at i+W and its original-unit
\* target is field 0 of the data at i+W.
C3_WindowsCountAndOffsets ==
    (Called("prepare_samples") /\ 0 < numSeq /\ numSeq < N) =>
        /\ lastCall.err = "none"
        /\ Len(normalizedData) = N
        /\ Len(normDataHistory) = N - numSeq
        /\ Len(nextDayValsNorm) = N - numSeq
        /\ Len(nextDayVals) = N - numSeq
        /\ \A i \in 0..(N - numSeq - 1) :
            /\ Len(normDataHistory[i + 1]) = numSeq
            /\ \A t \in 1..numSeq :
                normDataHistory[i + 1][t] = normalizedData[i + t]
            /\ nextDayValsNorm[i + 1] = << normalizedData[i + numSeq + 1][TargetCol] >>
            /\ nextDayVals[i + 1] = << RInt(data[i + numSeq + 1][TargetCol]) >>

C3_Witness ==
    /\ Ok("prepare_samples")
    /\ N = 3 /\ numSeq = 1
    /\ Len(normDataHistory) = 2
    /\ normDataHistory[1] # normDataHistory[2]

\* C4 (as claimed): split() with p in (0,1) on M samples leaves a train
\* partition of floor(M * (1 - p)) samples and a test partition of the rest.
C4_TrainIsFloorOfComplement ==
    (Ok("split_data") /\ InsideUnit(testProp)) =>
        LET M == Len(normDataHistory)
            k == RFloor(RMul(RInt(M), RSub(<<1, 1>>, testProp)))
        IN  Len(train_samplesX) = k /\ Len(test_samplesX) = M - k

\* C4 (amended): split() with p in (0,1) on M samples leaves a test partition
\* of floor(M * p) samples and a train partition of M - floor(M * p) samples,
\* for the core samples and for the indicators alike.
C4_TestIsFloorOfProportion ==
    /\ (Ok("split_data") /\ InsideUnit(testProp)) =>
        LET M == Len(normDataHistory)
            k == RFloor(RMul(RInt(M), testProp))
        IN  /\ Len(test_samplesX) = k /\ Len(train_samplesX) = M - k
            /\ Len(test_samplesY) = k /\ Len(train_samplesY) = M - k
            /\ Len(nextDayVals_test) = k
    /\ (Ok("split_indicator_data") /\ InsideUnit(testProp)) =>
        LET M == Len(indicatorsNorm)
            k == RFloor(RMul(RInt(M), testProp))
        IN  Len(indicators_test) = k /\ Len(indicators_train) = M - k

C4_Witness ==
    /\ Ok("split_data")
    /\ InsideUnit(testProp)
    /\ Len(train_samplesX) = 1
    /\ Len(test_samplesX) = 1

\* C5: after split(), train is a leading and test the trailing contiguous
\* segment of the samples in their order: train followed by test is the sample
\* sequence, for the windows, the normalized targets and the original-unit
\* targets of the test segment.
C5_SplitIsOrderedPartition ==
    Ok("split_data") =>
        \E k \in 0..Len(normDataHistory) :
            /\ train_samplesX = SubSeq(normDataHistory, 1, k)
            /\ test_samplesX = SubSeq(normDataHistory, k + 1, Len(normDataHistory))
            /\ train_samplesY = SubSeq(nextDayValsNorm, 1, k)
            /\ test_samplesY = SubSeq(nextDayValsNorm, k + 1, Len(nextDayValsNorm))
            /\ nextDayVals_test = SubSeq(nextDayVals, k + 1, Len(nextDayVals))
            /\ train_samplesX \o test_samplesX = normDataHistory

C5_Witness ==
    /\ Ok("split_data")
    /\ Len(train_samplesX) >= 1
    /\ Len(test_samplesX) >= 1
    /\ train_samplesX[1] # test_samplesX[1]

\* C6 (as claimed): the normalizer evaluate() inverse-transforms with undoes
\* the mapping prepare_samples() normalized the targets with: for every sample
\* the inverse transform of its normalized target is its original-unit target.
C6_InverseUndoesTargetNormalization ==
    "scaler" \in assigned =>
        \A i \in 1..Len(nextDayVals) :
            InverseTransform(scaler, << nextDayValsNorm[i] >>) = << nextDayVals[i] >>

\* C7 (as claimed): split() fails with ConfigurationError when the test
\* proportion is not inside (0,1) or leaves a partition empty; after a
\* successful split both partitions are non-empty.
C7_BadProportionIsConfigurationError ==
    /\ ((Called("split_data") \/ Called("split_indicator_data"))
            /\ ~InsideUnit(testProp))
        => lastCall.err = "ConfigurationError"
    /\ Ok("split_data") => (Len(train_samplesX) > 0 /\ Len(test_samplesX) > 0)
    /\ Ok("split_indicator_data")
        => (Len(indicators_train) > 0 /\ Len(indicators_test) > 0)

\* C8 (as claimed): prepare_samples() fails with InsufficientDataError when
\* the window length is at least the number of rows, and no instance holds
\* zero prepared samples.
C8_ShortSeriesIsInsufficientDataError ==
    /\ (Called("prepare_samples") /\ numSeq >= N)
        => lastCall.err = "InsufficientDataError"
    /\ "normDataHistory" \in assigned => Len(normDataHistory) > 0

\* C9 (as claimed): once train() has completed, evaluate() completes and
\* yields denormalized predictions, one per test target, with the metrics.
C9_EvaluateAfterTrainCompletes ==
    (Called("evaluate_forecasts") /\ model.state = "fitted") =>
        /\ lastCall.err = "none"
        /\ lastCall.locals.reached = "return"
        /\ Len(lastCall.locals.predictedPrices) = Len(nextDayVals_test)

\* the mean of the squared differences between the first column of the
\* predictions and the targets
MeanSquaredError(actual, predicted) ==
    Mean(Arr([i \in 1..Len(actual) |->
        RMul(RSub(actual[i][1], predicted[i][1]), RSub(actual[i][1], predicted[i][1]))]))

\* field 0 rises by 1 from row to row
RisesByOne == \A i \in 1..(N - 1) : data[i + 1][TargetCol] = data[i][TargetCol] + 1

\* the engine answered each test window with the value of its last step
PredictedLastValue ==
    lastCall.locals.predicted = Predict("last", test_samplesX, test_samplesY)

\* C10 (as claimed): the figure evaluate() reports as MSE is the mean squared
\* difference between the denormalized predictions and the test targets, not
\* rescaled; on a series rising by 1 with a predict-last-value engine it is 1.
C10_ReportedMseIsMeanSquare ==
    (Called("evaluate_forecasts") /\ lastCall.locals.reached # "none") =>
        /\ lastCall.locals.MSE_scaled
              = MeanSquaredError(nextDayVals_test, lastCall.locals.predictedPrices)
        /\ (RisesByOne /\ PredictedLastValue) => lastCall.locals.MSE_scaled = <<1, 1>>

\* the windows held were cut with the window length now configured
WindowsHeldFor(w) ==
    /\ "normDataHistory" \in assigned
    /\ \/ Called("prepare_samples")
       \/ Len(normDataHistory) > 0 /\ Len(normDataHistory[1]) = w

\* C11: prepare_samples() called again on the same data with the window length
\* of the samples held leaves the samples, the normalized targets, the
\* original-unit targets and the target scaler exactly as they were.
C11_PrepareSamplesIsIdempotent ==
    [][ (prepare_samples /\ WindowsHeldFor(numSeq)) => samples' = samples ]_vars

\* prepare_samples() has run after prepare_indicators(), which needed an
\* earlier prepare_samples(), and set_globals was never called.
C11_Witness ==
    /\ Ok("prepare_samples")
    /\ "indicators" \in assigned
    /\ globalsCalls = 0
    /\ Len(normDataHistory) = 2

\* the rows of a file that hold no missing value, in the file's order, as
\* rows of values
CompleteRows(rows) ==
    LET kept == SelectSeq(rows, LAMBDA r : \A j \in 1..Len(r) : r[j] # <<>>)
    IN  [i \in 1..Len(kept) |-> [j \in 1..Len(kept[i]) |-> kept[i][j][1]]]

\* the operation, invoked in the lifecycle state it produces, fails
FailsWhenRepeated(op, produced) ==
    (op /\ Phase = produced) => (lastCall'.err # "none" /\ Phase' = Phase)

\* load() replaces the data by the rows of the file that hold no missing
\* value, discards everything derived and returns to Loaded
LoadDiscards ==
    (load /\ lastCall'.err = "none") =>
        /\ data' = CompleteRows(lastCall'.locals.read)
        /\ Fresh'
        /\ Phase' = "Loaded"

\* C12 (as claimed): load() may be called in every lifecycle state, replaces
\* the data, discards everything derived and returns to Loaded; no other
\* operation may be repeated in the state it produces.
C12_OnlyLoadRepeats ==
    [][ /\ LoadDiscards
        /\ FailsWhenRepeated(prepare_samples, "SamplesPrepared")
        /\ FailsWhenRepeated(prepare_indicators, "IndicatorsPrepared")
        /\ FailsWhenRepeated(split_data, "Split")
        /\ FailsWhenRepeated(split_indicator_data, "Split")
        /\ FailsWhenRepeated(fit_LSTM, "Trained")
        /\ FailsWhenRepeated(evaluate_forecasts, "Evaluated") ]_vars

\* the half of C12 that is about load() alone
LoadDiscardsAlways == [][LoadDiscards]_vars

\* C13: after load() the data hold no record with a missing field: every row
\* of the file with at least one missing value is gone, every row without one
\* is kept, in the file's order.
C13_LoadDropsRowsWithNulls ==
    /\ \A i \in 1..Len(data) : data[i] \in Rows
    /\ (Called("__init__") /\ lastCall.err = "none")
           => data = CompleteRows(lastCall.locals.read)

\* a file of a row with every field missing, then a complete row: one row kept
C13_Witness ==
    /\ Called("__init__") /\ lastCall.err = "none"
    /\ Len(lastCall.locals.read) = 2
    /\ \A j \in 1..5 : lastCall.locals.read[1][j] = <<>>
    /\ Len(data) = 1

\* C14 (as claimed): load() fails with DataLoadError when the source cannot be
\* read or no row survives the dropping of nulls; no instance is Loaded with
\* empty data.
C14_EmptyOrUnreadableIsDataLoadError ==
    /\ Len(data) > 0
    /\ (Called("__init__") /\ lastCall.err # "none")
           => lastCall.err = "DataLoadError"

\* self.model.fit was called and raised
EngineFailed ==
    /\ Called("fit_LSTM")
    /\ lastCall.locals.reached = "fit"
    /\ lastCall.err # "none"

RanOnConfig ==
    \/ Ok("prepare_samples")
    \/ Ok("split_data")
    \/ Ok("split_indicator_data")
    \/ Called("fit_LSTM") /\ lastCall.locals.reached = "fit"

IndicatorOf(window) == Transform(indicatorScaler, Indicators(<< window >>))[1]

\* C18 (as claimed): in every state after splitting, the train samples, train
\* indicators and train targets have one length, the test samples, test
\* indicators and test original-unit targets have one length, and the
\* indicator at an index is the one of the sample at that index, whatever
\* sequence of set_globals, split_data and split_indicator_data led there.
C18_SplitsStayPaired ==
    ({"train_samplesX", "indicators_train"} \subseteq assigned) =>
        /\ Len(train_samplesX) = Len(indicators_train)
        /\ Len(train_samplesX) = Len(train_samplesY)
        /\ Len(test_samplesX) = Len(indicators_test)
        /\ Len(test_samplesX) = Len(nextDayVals_test)
        /\ \A j \in 1..Len(train_samplesX) :
              indicators_train[j] = IndicatorOf(train_samplesX[j])
        /\ \A j \in 1..Len(test_samplesX) :
              indicators_test[j] = IndicatorOf(test_samplesX[j])

\* C19 (as claimed): the indicators held are those of the samples held, one per
\* sample, in every reachable state.
C19_IndicatorsFollowSamples ==
    "indicators" \in assigned => indicators = Indicators(normDataHistory)

\* the target field of the data mapped onto [0,1] by its least and greatest
\* value over the whole data (a constant field maps to 0)
NormalizedTarget(v) ==
    LET col == { RInt(data[i][TargetCol]) : i \in 1..N }
        lo == RMinOf(col)
        hi == RMaxOf(col)
    IN  IF hi = lo THEN RSub(v, lo) ELSE RDiv(RSub(v, lo), RSub(hi, lo))

\* C20: for every sample i the normalized target is the normalization of the
\* original-unit target, both taken from field 0 at index i+W; and the test
\* partition's original-unit targets match its normalized targets index by
\* index.
C20_TargetsPaired ==
    /\ "nextDayVals" \in assigned =>
          /\ Len(nextDayValsNorm) = Len(nextDayVals)
          /\ \A i \in 1..Len(nextDayVals) :
                nextDayValsNorm[i] = << NormalizedTarget(nextDayVals[i][1]) >>
    /\ Called("prepare_samples") =>
          \A i \in 1..Len(nextDayVals) :
              /\ nextDayVals[i] = << RInt(data[i + numSeq][TargetCol]) >>
              /\ nextDayValsNorm[i] = << normalizedData[i + numSeq][TargetCol] >>
    /\ "nextDayVals_test" \in assigned =>
          /\ Len(test_samplesY) = Len(nextDayVals_test)
          /\ \A j \in 1..Len(nextDayVals_test) :
                test_samplesY[j] = << NormalizedTarget(nextDayVals_test[j][1]) >>
    /\ Ok("split_data") =>
          \A j \in 1..Len(nextDayVals_test) :
              /\ nextDayVals_test[j] = nextDayVals[Len(train_samplesY) + j]
              /\ test_samplesY[j] = nextDayValsNorm[Len(train_samplesY) + j]

\* a split with a test target whose normalized value is neither the target
\* nor the target scaled without the shift
C20_Witness ==
    /\ Ok("split_data")
    /\ Len(nextDayVals_test) >= 1
    /\ Len(train_samplesY) >= 1
    /\ \A i \in 1..N : data[i][TargetCol] > 0
    /\ test_samplesY[1] # nextDayVals_test[1]

\* the attributes of the instance of that name
Instance(k) == IF name = k THEN Self ELSE other

\* C17: under every interleaving of the calls on two instances, a call on one
\* instance leaves every attribute of the other as it was: the attributes of an
\* instance change only in a step that is a method call on that instance, so
\* each instance goes through the states it goes through alone.
C17_InstancesShareNothing ==
    [][ \A k \in {"AAPL", "GDX"} :
            (Instance(k)' # Instance(k)) => (name = k /\ name' = k /\ Next) ]_vars

\* both instances have gone through the pipeline, GDX called last, with
\* scalers of their own
C17_Witness ==
    /\ name = "GDX"
    /\ Called("fit_LSTM") /\ model.state = "fitted"
    /\ other # NoOther
    /\ other.model.state = "fitted"
    /\ other.samples[1] # scaler

\* x mapped onto [0,1] by the least and the greatest value of S (a set of one
\* value maps to 0)
Rescaled(x, S) ==
    LET lo == RMinOf(S)
        hi == RMaxOf(S)
    IN  IF hi = lo THEN RSub(x, lo) ELSE RDiv(RSub(x, lo), RSub(hi, lo))

\* the values of field j over all N records of the data
Field(j) == { RInt(data[i][j]) : i \in 1..N }

\* C21: the normalizer of prepare_samples() is fitted on the entire data
\* before any split: every field is rescaled with its minimum and maximum over
\* all N records, those of the later test partition included; the indicator
\* normalizer is fitted over the indicators of all samples.
C21_NormalizersFittedOnEverything ==
    /\ "normalizedData" \in assigned =>
          /\ Len(normalizedData) = N
          /\ \A i \in 1..N : \A j \in 1..Len(data[i]) :
                normalizedData[i][j] = Rescaled(RInt(data[i][j]), Field(j))
    /\ indicatorScaler.fitted =>
          LET all == { indicators[i][1] : i \in 1..Len(indicators) }
          IN  /\ indicators # <<>>
              /\ indicatorScaler.data_min = << RMinOf(all) >>
              /\ indicatorScaler.data_max = << RMaxOf(all) >>
              /\ Len(indicatorsNorm) = Len(indicators)
              /\ \A i \in 1..Len(indicators) :
                    indicatorsNorm[i] = << Rescaled(indicators[i][1], all) >>

\* both splits made with a test partition, the greatest target value and the
\* greatest indicator lying in the last record only, inside the test partition
C21_Witness ==
    /\ Ok("split_indicator_data")
    /\ "test_samplesX" \in assigned
    /\ Len(test_samplesX) >= 1 /\ Len(indicators_test) >= 1
    /\ \A i \in 1..(N - 1) : data[i][TargetCol] < data[N][TargetCol]
    /\ normalizedData[N][TargetCol] = <<1, 1>>
    /\ indicators_test[Len(indicators_test)] = << <<1, 1>> >>
    /\ \A i \in 1..Len(indicators_train) : indicators_train[i] # << <<1, 1>> >>

InUnit(x) == RLeq(<<0, 1>>, x) /\ RLeq(x, <<1, 1>>)

\* C22 (as claimed): every value of the normalized series lies in [0,1]; each
\* field is rescaled by its own extremes, whatever the other fields hold (the
\* order of the field's values is kept, equal values stay equal); in every
\* field that is not constant the least value maps to 0 and the greatest to 1.
C22_NormalizedWithinUnitPerField ==
    "normalizedData" \in assigned =>
        \A j \in 1..5 :
            /\ \A i \in 1..Len(normalizedData) : InUnit(normalizedData[i][j])
            /\ \A i, k \in 1..Len(normalizedData) :
                  (data[i][j] <= data[k][j])
                      <=> RLeq(normalizedData[i][j], normalizedData[k][j])
            /\ (\E i, k \in 1..N : data[i][j] # data[k][j]) =>
                  \A i \in 1..N :
                      /\ RInt(data[i][j]) = RMinOf(Field(j))
                            => normalizedData[i][j] = <<0, 1>>
                      /\ RInt(data[i][j]) = RMaxOf(Field(j))
                            => normalizedData[i][j] = <<1, 1>>

\* The rounding error a value of a field with extremes lo < hi (not negative)
\* can carry after lo, hi -> 1/(hi-lo) -> x*scale, lo*scale -> their
\* difference: four roundings of relative size 2^-p, on terms of size up to
\* hi/(hi-lo).
Tolerance(lo, hi) ==
    IF precision = 0 \/ hi = lo THEN <<0, 1>>
    ELSE Rat(8 * hi, (hi - lo) * Pow2(precision))

\* |x - 1| <= t, exactly
NearOne(x, t) ==
    /\ RLeq(x, Rat(t[2] + t[1], t[2]))
    /\ RLeq(Rat(t[2] - t[1], t[2]), x)

\* C22 (amended): every value of the normalized series lies in [0,1] up to
\* rounding - it is never below 0 and exceeds 1 by no more than the rounding
\* error; each field is rescaled by its own extremes (the order of the field's
\* values is kept); in every field that is not constant the least value maps
\* to exactly 0 and the greatest to 1 within the rounding error.
C22_NormalizedWithinUnitUpToRounding ==
    "normalizedData" \in assigned =>
        \A j \in 1..5 :
            LET lo == RMinOf(Field(j))[1]
                hi == RMaxOf(Field(j))[1]
                t == Tolerance(lo, hi)
            IN  /\ \A i \in 1..Len(normalizedData) :
                      /\ RLeq(<<0, 1>>, normalizedData[i][j])
                      /\ RLeq(normalizedData[i][j], Rat(t[2] + t[1], t[2]))
                /\ \A i, k \in 1..Len(normalizedData) :
                      (data[i][j] <= data[k][j])
                          => RLeq(normalizedData[i][j], normalizedData[k][j])
                /\ hi # lo =>
                      \A i \in 1..N :
                          /\ data[i][j] = lo => normalizedData[i][j] = <<0, 1>>
                          /\ data[i][j] = hi => NearOne(normalizedData[i][j], t)

\* the greatest value of the target field came out above 1, beside a field
\* whose greatest value came out as 1
C22_Witness ==
    /\ Ok("prepare_samples")
    /\ \E i \in 1..N : ~RLeq(normalizedData[i][TargetCol], <<1, 1>>)
    /\ \E i \in 1..N : normalizedData[i][4] = <<1, 1>>
    /\ \E i \in 1..N : normalizedData[i][TargetCol] = <<0, 1>>

\* C23: the data are immutable after load: no call of prepare_samples,
\* prepare_indicators, split_data, split_indicator_data, set_globals, fit_LSTM
\* or evaluate_forecasts changes a record of the data or their order.
C23_DataNeverChange == [][data' = data]_vars

\* the whole pipeline has run on an instance configured by set_globals
C23_Witness ==
    /\ Called("evaluate_forecasts")
    /\ lastCall.locals.reached = "print"
    /\ model.state = "fitted"
    /\ globalsCalls = 1
    /\ N = 3

\* C24: train() changes only the model held: the data, the normalizers, the
\* samples, the indicators, the train and test partitions and the
\* configuration are after fit_LSTM what they were before it.
C24_FitChangesOnlyModel ==
    [][ fit_LSTM => UNCHANGED <<data, config, samples, indics, coreSplit, indSplit>> ]_vars

\* a completed fit on two distinct train samples
C24_Witness ==
    /\ Ok("fit_LSTM")
    /\ model.state = "fitted"
    /\ Len(train_samplesX) = 2
    /\ train_samplesX[1] # train_samplesX[2]

\* exact arithmetic, whatever the instance computes in
XSub(a, b) == LET c == Common(a, b) IN Rat(c[1] - c[2], c[3])
XMul(a, b) == Rat(a[1] * b[1], a[2] * b[2])
XDiv(a, b) == Rat(a[1] * b[2], a[2] * b[1])

\* the rounding error of a rescaled value, for extremes 0 <= lo < hi that are
\* not whole: 8 * (hi / (hi - lo)) / 2^p
ToleranceOf(lo, hi) ==
    IF precision = 0 \/ hi = lo THEN <<0, 1>>
    ELSE XMul(<<8, Pow2(precision)>>, XDiv(hi, XSub(hi, lo)))

\* prepare_indicators leaves the sample scaler, the samples and the targets
\* as they were
IndicatorsLeaveSamples ==
    prepare_indicators => UNCHANGED samples

\* C25 (as claimed): prepare_indicators() fits a normalizer of its own: it
\* leaves the normalizer of prepare_samples(), the samples and the targets
\* unchanged, and every normalized indicator lies in [0,1].
C25_IndicatorsOwnScalerWithinUnit ==
    [][ /\ IndicatorsLeaveSamples
        /\ (prepare_indicators /\ lastCall'.err = "none") =>
              \A i \in 1..Len(indicatorsNorm') : InUnit(indicatorsNorm'[i][1]) ]_vars

\* C25 (amended): prepare_indicators() fits a normalizer of its own: it
\* leaves the normalizer of prepare_samples(), the samples and the targets
\* unchanged, and every normalized indicator lies in [0,1] up to rounding: it
\* is never below 0 and exceeds 1 by no more than the rounding error.
C25_IndicatorsOwnScalerUpToRounding ==
    [][ /\ IndicatorsLeaveSamples
        /\ (prepare_indicators /\ lastCall'.err = "none") =>
              LET all == { indicators'[i][1] : i \in 1..Len(indicators') }
                  t == ToleranceOf(RMinOf(all), RMaxOf(all))
              IN  \A i \in 1..Len(indicatorsNorm') :
                      /\ RLeq(<<0, 1>>, indicatorsNorm'[i][1])
                      /\ RLeq(indicatorsNorm'[i][1], Rat(t[2] + t[1], t[2])) ]_vars

\* a normalized indicator above 1, the sample scaler fitted before
C25_Witness ==
    /\ Ok("prepare_indicators")
    /\ scaler.fitted
    /\ scaler # indicatorScaler
    /\ \E i \in 1..Len(indicatorsNorm) : ~RLeq(indicatorsNorm[i][1], <<1, 1>>)

\* C26: the assertion that ends prepare_samples() never fails: whenever
\* prepare_samples() reaches it, there are as many windows as normalized
\* targets and as original-unit targets.
C26_AssertionNeverFails ==
    Called("prepare_samples") =>
        /\ lastCall.err # "AssertionError"
        /\ lastCall.err = "none" =>
              /\ Len(normDataHistory) = Len(nextDayValsNorm)
              /\ Len(normDataHistory) = Len(nextDayVals)

\* the assertion reached with one window of two rows
C26_Witness ==
    /\ Ok("prepare_samples")
    /\ numSeq = 2
    /\ Len(normDataHistory) = 1
    /\ Len(normDataHistory[1]) = 2
    /\ N = 3

\* C27 (as claimed): the window length fit_LSTM declares as the input shape
\* of the engine is the window length the train samples held were cut with,
\* whatever sequence of set_globals, prepare_samples, split and fit calls led
\* there.
C27_DeclaredShapeIsWindowLength ==
    (Called("fit_LSTM") /\ lastCall.locals.reached = "fit"
        /\ "train_samplesX" \in assigned) =>
        \A i \in 1..Len(train_samplesX) : Len(train_samplesX[i]) = model.seqLen

\* C28 (as claimed): when the engine's fit fails inside train(), the model held
\* afterwards is the one held before train() was called, and evaluate() never
\* gets predictions from a model that was not fitted.
C28_FailedFitLeavesModel ==
    [][ /\ (fit_LSTM /\ lastCall'.err # "none") => model' = model
        /\ (evaluate_forecasts /\ lastCall'.locals.reached # "none")
              => model.state = "fitted" ]_vars

\* C29: set_globals changes the five configuration values and nothing else:
\* the data, the normalizers, the windows and targets, the indicators, the
\* splits and the model are after the call what they were before it.
C29_SetGlobalsChangesOnlyConfig ==
    [][ set_globals =>
            UNCHANGED <<name, data, samples, indics, coreSplit, indSplit, model,
                        assigned>> ]_vars

\* set_globals was called on an instance holding samples, a split and a fitted
\* model, and gave it a window length other than the one the windows have
C29_Witness ==
    /\ Called("set_globals")
    /\ model.state = "fitted"
    /\ "train_samplesX" \in assigned
    /\ Len(normDataHistory) > 0
    /\ Len(normDataHistory[1]) # numSeq

\* the n of the updates made, added up
RECURSIVE ItemsOf(_)
ItemsOf(us) ==
    IF us = <<>> THEN 0 ELSE ItemsOf(SubSeq(us, 1, Len(us) - 1)) + us[Len(us)][2]

\* the val * n of the updates made, added up in the order of the calls
RECURSIVE WeightedSumOf(_)
WeightedSumOf(us) ==
    IF us = <<>> THEN <<0, 1>>
    ELSE RAdd(WeightedSumOf(SubSeq(us, 1, Len(us) - 1)),
              RMul(us[Len(us)][1], <<us[Len(us)][2], 1>>))

\* C30: after reset the meter's val, avg, sum and count are all 0; after
\* update calls with n >= 1 since the last reset, count is the sum of the n,
\* sum is the sum of the val * n, avg is sum / count and val is the value of
\* the last call.
C30_MeterTracksUpdates ==
    /\ updates = <<>> =>
          /\ loss_avgmeter.val = <<0, 1>>
          /\ loss_avgmeter.avg = <<0, 1>>
          /\ loss_avgmeter.sum = <<0, 1>>
          /\ loss_avgmeter.count = 0
    /\ updates # <<>> =>
          /\ loss_avgmeter.count = ItemsOf(updates)
          /\ loss_avgmeter.sum = WeightedSumOf(updates)
          /\ loss_avgmeter.avg = RDiv(loss_avgmeter.sum, <<loss_avgmeter.count, 1>>)
          /\ loss_avgmeter.val = updates[Len(updates)][1]

\* three updates of different values and item counts since the last reset,
\* their average no value that was passed
C30_Witness ==
    /\ Len(updates) = 3
    /\ updates[1][2] = 2
    /\ updates[2][2] = 3
    /\ updates[1][1] # updates[2][1]
    /\ loss_avgmeter.count = 6
    /\ \A i \in 1..3 : loss_avgmeter.avg # updates[i][1]

====
